---- MODULE Spec2Model ----
(***************************************************************************)
(* A model of src/app.py: the retrying quote fetch (fetch_indicator), the  *)
(* batch fetch over INDICATORS (fetch_all_indicators) under its ttl cache, *)
(* and the page run's filter step.                                         *)
(*                                                                         *)
(* Strings the code takes apart (upstream numeric fields, labels, the      *)
(* search query) are sequences of one-character strings.                   *)
(***************************************************************************)
EXTENDS Integers, Sequences, FiniteSets, TLC

VARIABLES
    \* ---- the active fetch_indicator call
    fpc,            \* "idle" | "loop" | "returned" | "raised"
    caller,         \* "none" | "direct" | "batch"
    flabel,         \* the label argument
    retries,        \* the retries argument
    delay,          \* the delay argument
    attempt,        \* the loop variable of `for attempt in range(retries)`
    log,            \* the requests and sleeps of this call, in order
    failures,       \* attempts of this call that ended in the except branch
    lastResp,       \* what the upstream answered to the latest request
    fresult,        \* None, the returned Quote, or the raised exception
    \* ---- the page run and the cached fetch_all_indicators
    ppc,            \* "idle" | "batch" | "filter" | "done"
    cache,          \* the st.cache_data entry of fetch_all_indicators
    ticks,          \* idle waits so far
    idx,            \* position of the batch loop in INDICATORS (1-based)
    records,        \* the records list of the running batch
    warnings,       \* labels st.warning was called for in this batch
    called,         \* labels fetch_indicator was invoked for in this batch
    failedSpecs,    \* labels whose fetch_indicator call raised in this batch
    fetched,        \* the DataFrame fetch_all_indicators handed to this run
    df,             \* the DataFrame after the filter step
    selection,      \* the sidebar multiselect value
    search_query,   \* the sidebar text input value
    outcome,        \* "none" | "no_data" | "rendered" | "error"
    startKind,      \* the cache at the call: "none" | "live" | "edge" | "expired"
    runRequests,    \* HTTP requests issued during this page run
    runBatches      \* batch fetches started during this page run

fetchVars == <<fpc, caller, flabel, retries, delay, attempt, log, failures,
               lastResp, fresult>>
batchVars == <<idx, records, warnings, called, failedSpecs>>
runVars == <<fetched, df, selection, search_query, outcome, startKind,
             runRequests, runBatches>>
vars == <<fetchVars, ppc, cache, ticks, batchVars, runVars>>

----------------------------------------------------------------------------
(* Bounds of the model *)

MaxSpecs == 3       \* how many entries of INDICATORS a batch walks
MaxRetries == 3     \* largest retries argument of a direct call
MaxTicks == 2       \* idle waits in one behaviour

(* Program constants *)

DefaultRetries == 3
DefaultDelay == 1
TTL == 300

----------------------------------------------------------------------------
(* Characters and strings *)

Lower(c) ==
    CASE c = "A" -> "a" [] c = "B" -> "b" [] c = "C" -> "c" [] c = "D" -> "d"
      [] c = "E" -> "e" [] c = "F" -> "f" [] c = "G" -> "g" [] c = "H" -> "h"
      [] c = "I" -> "i" [] c = "J" -> "j" [] c = "K" -> "k" [] c = "L" -> "l"
      [] c = "M" -> "m" [] c = "N" -> "n" [] c = "O" -> "o" [] c = "P" -> "p"
      [] c = "Q" -> "q" [] c = "R" -> "r" [] c = "S" -> "s" [] c = "T" -> "t"
      [] c = "U" -> "u" [] c = "V" -> "v" [] c = "W" -> "w" [] c = "X" -> "x"
      [] c = "Y" -> "y" [] c = "Z" -> "z" [] OTHER -> c

LowerStr(s) == [k \in 1..Len(s) |-> Lower(s[k])]

\* str.replace(old, ""): every occurrence of the one-character old removed
Replace(s, old) == SelectSeq(s, LAMBDA c : c # old)

Digits == {"0", "1", "2", "3", "4", "5", "6", "7", "8", "9"}

DigitVal(c) ==
    CASE c = "0" -> 0 [] c = "1" -> 1 [] c = "2" -> 2 [] c = "3" -> 3
      [] c = "4" -> 4 [] c = "5" -> 5 [] c = "6" -> 6 [] c = "7" -> 7
      [] c = "8" -> 8 [] c = "9" -> 9

RECURSIVE DecVal(_)
DecVal(s) ==
    IF s = <<>> THEN 0
    ELSE 10 * DecVal(SubSeq(s, 1, Len(s) - 1)) + DigitVal(s[Len(s)])

(* Python floats: a finite value, a NaN or an infinity *)
Finite(n) == [kind |-> "finite", v |-> n]
NaN == [kind |-> "nan", v |-> 0]
Inf(sign) == [kind |-> "inf", v |-> sign]
IsFinite(x) == x.kind = "finite"

ParseError == [kind |-> "ValueError", v |-> 0]

\* float(s) for a str s: an optional sign, then decimal digits, "nan",
\* "inf" or "infinity" in any case; anything else raises ValueError.
\* (Fractions and exponents are not among the modelled inputs.)
Float(s) ==
    LET signed == s # <<>> /\ s[1] \in {"-", "+"}
        sign == IF s # <<>> /\ s[1] = "-" THEN -1 ELSE 1
        body == IF signed THEN Tail(s) ELSE s
    IN  IF body # <<>> /\ \A k \in 1..Len(body) : body[k] \in Digits
            THEN Finite(sign * DecVal(body))
        ELSE IF LowerStr(body) = <<"n", "a", "n">> THEN NaN
        ELSE IF LowerStr(body) \in {<<"i", "n", "f">>,
                                    <<"i", "n", "f", "i", "n", "i", "t", "y">>}
            THEN Inf(sign)
        ELSE ParseError

----------------------------------------------------------------------------
(* The upstream's answers *)

Str(s) == [t |-> "str", s |-> s]
NonStr == [t |-> "number", s |-> <<>>]

FieldStrings ==
    { <<"7">>, <<"1", ",", "2">>, <<"5", "%">>, <<"x">>, <<"n", "a", "n">> }

FieldValues == {Str(s) : s \in FieldStrings} \cup {NonStr}

FieldKeys == {"pricecurrent", "pricechange", "pricepercentchange"}

\* the `data` mappings: any subset of the three keys, any value for each
DataObjects == UNION {[ks -> FieldValues] : ks \in SUBSET FieldKeys}

NoData == [k \in {} |-> NonStr]

FailureKinds ==
    { "NetworkError",       \* requests.get raises
      "HttpStatusError",    \* raise_for_status raises
      "NotJson",            \* resp.json() raises
      "NotDict",            \* the body is JSON but no object
      "MissingData",        \* an object without "data"
      "NullData",           \* {"data": null}
      "DataNotObject" }     \* "data" is a string, a number, a list

Failure(k) == [kind |-> k, data |-> NoData]
Body(d) == [kind |-> "Data", data |-> d]

Responses == {Failure(k) : k \in FailureKinds} \cup {Body(d) : d \in DataObjects}

\* the answers a batch run draws from: two kinds of failure, one valid body
GoodData == [k \in FieldKeys |->
                IF k = "pricepercentchange" THEN Str(<<"5", "%">>)
                ELSE Str(<<"1", ",", "2">>)]
BatchResponses == {Failure("NetworkError"), Failure("NullData"), Body(GoodData)}

----------------------------------------------------------------------------
(* fetch_indicator *)

None == [kind |-> "None"]
Raised(e) == [kind |-> "exc", exc |-> e]
Returned(q) == [kind |-> "quote", quote |-> q]

\* data.get(key, "0")
Get(data, key) == IF key \in DOMAIN data THEN data[key] ELSE Str(<<"0">>)

\* float(data.get(key, "0").replace(strip, "")): the float, or the exception
ParseField(data, key, strip) ==
    LET val == Get(data, key)
    IN  IF val.t # "str" THEN [kind |-> "AttributeError", v |-> 0]
        ELSE Float(Replace(val.s, strip))

IsNumber(x) == x.kind \in {"finite", "nan", "inf"}

\* the body of the try block for one answer of the upstream
TryAttempt(label, resp) ==
    IF resp.kind = "NetworkError" THEN Raised("ConnectionError")
    ELSE IF resp.kind = "HttpStatusError" THEN Raised("HTTPError")
    ELSE IF resp.kind = "NotJson" THEN Raised("JSONDecodeError")
    ELSE IF resp.kind \in {"NotDict", "MissingData", "NullData"}
        THEN Raised("ValueError")
    ELSE IF resp.kind = "DataNotObject" THEN Raised("AttributeError")
    ELSE
        LET price == ParseField(resp.data, "pricecurrent", ",")
            change == ParseField(resp.data, "pricechange", ",")
            pct == ParseField(resp.data, "pricepercentchange", "%")
        IN  IF ~IsNumber(price) THEN Raised(price.kind)
            ELSE IF ~IsNumber(change) THEN Raised(change.kind)
            ELSE IF ~IsNumber(pct) THEN Raised(pct.kind)
            ELSE Returned([label |-> label, price |-> price,
                           change |-> change, pct |-> pct])

\* range(retries)
Range(n) == 0..(n - 1)

ShouldSleepAfterLast(att, n) == att < n

\* `if attempt < retries - 1`
ShouldSleep(att, n) == att < n - 1

RequestEvent == [ev |-> "request", d |-> 0]

SleepSkipped(l, d) == l

\* time.sleep(delay), as this call's log records it
LogSleep(l, d) == Append(l, [ev |-> "sleep", d |-> d])

\* time passing, as the cache entry sees it
Elapse(entry, d) ==
    IF entry.kind = "entry" THEN [entry EXCEPT !.age = @ + d] ELSE entry

\* entering fetch_indicator(code, label, retries, delay)
Enter(who, label, n, d) ==
    /\ fpc = "idle"
    /\ fpc' = "loop"
    /\ caller' = who
    /\ flabel' = label
    /\ retries' = n
    /\ delay' = d
    /\ attempt' = 0
    /\ log' = <<>>
    /\ failures' = 0
    /\ lastResp' = Failure("NetworkError")
    /\ fresult' = None

\* the call's frame is gone once its caller has the result
Leave ==
    /\ fpc' = "idle"
    /\ caller' = "none"
    /\ flabel' = ""
    /\ retries' = 0
    /\ delay' = 0
    /\ attempt' = 0
    /\ log' = <<>>
    /\ failures' = 0
    /\ lastResp' = Failure("NetworkError")
    /\ fresult' = None

\* one iteration of the for loop
FetchAttempt(resp) ==
    /\ fpc = "loop"
    /\ attempt \in Range(retries)
    /\ lastResp' = resp
    /\ runRequests' = IF caller = "batch" THEN runRequests + 1 ELSE runRequests
    /\ LET r == TryAttempt(flabel, resp)
           l == Append(log, RequestEvent)
       IN  IF r.kind = "quote"
               THEN /\ fpc' = "returned"
                    /\ fresult' = r
                    /\ log' = l
                    /\ UNCHANGED <<attempt, failures, cache, failedSpecs>>
           ELSE IF ShouldSleep(attempt, retries)
               THEN /\ log' = LogSleep(l, delay)
                    /\ cache' = Elapse(cache, delay)
                    /\ attempt' = attempt + 1
                    /\ failures' = failures + 1
                    /\ UNCHANGED <<fpc, fresult, failedSpecs>>
           ELSE /\ fpc' = "raised"
                /\ fresult' = r
                /\ log' = l
                /\ failures' = failures + 1
                /\ failedSpecs' = IF caller = "batch"
                                    THEN Append(failedSpecs, flabel)
                                    ELSE failedSpecs
                /\ UNCHANGED <<attempt, cache>>
    /\ UNCHANGED <<caller, flabel, retries, delay, ppc, ticks, idx, records,
                   warnings, called, fetched, df, selection, search_query,
                   outcome, startKind, runBatches>>

\* the loop is over without a return or a raise: the function ends, and a
\* Python function that ends without a return statement returns None
FetchFallThrough ==
    /\ fpc = "loop"
    /\ attempt \notin Range(retries)
    /\ fpc' = "returned"
    /\ fresult' = None
    /\ UNCHANGED <<caller, flabel, retries, delay, attempt, log, failures,
                   lastResp, ppc, cache, ticks, batchVars, runVars>>

----------------------------------------------------------------------------
(* The configured instruments *)

\* INDICATORS with the second entry's label a copy of the first's
IndicatorsRepeatedLabel ==
    << [code |-> "in;cjn", label |-> "Nifty Commodities"],
       [code |-> "in;nnx", label |-> "Nifty Commodities"],
       [code |-> "in;cnxt", label |-> "Nifty FMCG"],
       [code |-> "in;ncx", label |-> "Nifty Healthcare"],
       [code |-> "in;cnxs", label |-> "Nifty Infrastructure"],
       [code |-> "in;mfy", label |-> "Nifty IT"],
       [code |-> "mc;nscapf", label |-> "Nifty Private Banks"],
       [code |-> "in;IDXN", label |-> "Nifty Public Sector"],
       [code |-> "in;cnxa", label |-> "Nifty Auto"],
       [code |-> "in;cnit", label |-> "Nifty IT Services"],
       [code |-> "in;cuk", label |-> "Nifty Media"],
       [code |-> "in;cnxf", label |-> "Nifty Financial Services"],
       [code |-> "in;cpr", label |-> "Nifty Pharma"],
       [code |-> "in;cfm", label |-> "Nifty Metal"],
       [code |-> "in;CNXM", label |-> "Nifty Midcap"],
       [code |-> "in;crl", label |-> "Nifty Realty"],
       [code |-> "in;cnmx", label |-> "Nifty Smallcap"],
       [code |-> "in;cgy", label |-> "Nifty Green Energy"],
       [code |-> "in;nxb", label |-> "Nifty Banks"],
       [code |-> "in;cfr", label |-> "Nifty Retail"],
       [code |-> "in;cnxz", label |-> "Nifty Oil & Gas"],
       [code |-> "in;cnxc", label |-> "Nifty Consumer Durables"],
       [code |-> "in;cps", label |-> "Nifty PSU Banks"],
       [code |-> "in;crv", label |-> "Nifty Value 20"],
       [code |-> "mc;oilgas", label |-> "MC Oil & Gas"],
       [code |-> "mc;nmidcaps", label |-> "MC Nifty Midcaps"],
       [code |-> "mc;nm150qlty", label |-> "MC Nifty150 Quality 30"] >>

INDICATORS ==
    << [code |-> "in;cjn", label |-> "Nifty Commodities"],
       [code |-> "in;nnx", label |-> "Nifty Energy"],
       [code |-> "in;cnxt", label |-> "Nifty FMCG"],
       [code |-> "in;ncx", label |-> "Nifty Healthcare"],
       [code |-> "in;cnxs", label |-> "Nifty Infrastructure"],
       [code |-> "in;mfy", label |-> "Nifty IT"],
       [code |-> "mc;nscapf", label |-> "Nifty Private Banks"],
       [code |-> "in;IDXN", label |-> "Nifty Public Sector"],
       [code |-> "in;cnxa", label |-> "Nifty Auto"],
       [code |-> "in;cnit", label |-> "Nifty IT Services"],
       [code |-> "in;cuk", label |-> "Nifty Media"],
       [code |-> "in;cnxf", label |-> "Nifty Financial Services"],
       [code |-> "in;cpr", label |-> "Nifty Pharma"],
       [code |-> "in;cfm", label |-> "Nifty Metal"],
       [code |-> "in;CNXM", label |-> "Nifty Midcap"],
       [code |-> "in;crl", label |-> "Nifty Realty"],
       [code |-> "in;cnmx", label |-> "Nifty Smallcap"],
       [code |-> "in;cgy", label |-> "Nifty Green Energy"],
       [code |-> "in;nxb", label |-> "Nifty Banks"],
       [code |-> "in;cfr", label |-> "Nifty Retail"],
       [code |-> "in;cnxz", label |-> "Nifty Oil & Gas"],
       [code |-> "in;cnxc", label |-> "Nifty Consumer Durables"],
       [code |-> "in;cps", label |-> "Nifty PSU Banks"],
       [code |-> "in;crv", label |-> "Nifty Value 20"],
       [code |-> "mc;oilgas", label |-> "MC Oil & Gas"],
       [code |-> "mc;nmidcaps", label |-> "MC Nifty Midcaps"],
       [code |-> "mc;nm150qlty", label |-> "MC Nifty150 Quality 30"] >>

\* the characters of each label
LabelChars(label) ==
    CASE label = "Nifty Commodities" ->
           << "N", "i", "f", "t", "y", " ", "C", "o", "m", "m", "o", "d", "i", "t", "i", "e", "s" >>
      [] label = "Nifty Energy" ->
           << "N", "i", "f", "t", "y", " ", "E", "n", "e", "r", "g", "y" >>
      [] label = "Nifty FMCG" ->
           << "N", "i", "f", "t", "y", " ", "F", "M", "C", "G" >>
      [] label = "Nifty Healthcare" ->
           << "N", "i", "f", "t", "y", " ", "H", "e", "a", "l", "t", "h", "c", "a", "r", "e" >>
      [] label = "Nifty Infrastructure" ->
           << "N", "i", "f", "t", "y", " ", "I", "n", "f", "r", "a", "s", "t", "r", "u", "c", "t", "u", "r", "e" >>
      [] label = "Nifty IT" ->
           << "N", "i", "f", "t", "y", " ", "I", "T" >>
      [] label = "Nifty Private Banks" ->
           << "N", "i", "f", "t", "y", " ", "P", "r", "i", "v", "a", "t", "e", " ", "B", "a", "n", "k", "s" >>
      [] label = "Nifty Public Sector" ->
           << "N", "i", "f", "t", "y", " ", "P", "u", "b", "l", "i", "c", " ", "S", "e", "c", "t", "o", "r" >>
      [] label = "Nifty Auto" ->
           << "N", "i", "f", "t", "y", " ", "A", "u", "t", "o" >>
      [] label = "Nifty IT Services" ->
           << "N", "i", "f", "t", "y", " ", "I", "T", " ", "S", "e", "r", "v", "i", "c", "e", "s" >>
      [] label = "Nifty Media" ->
           << "N", "i", "f", "t", "y", " ", "M", "e", "d", "i", "a" >>
      [] label = "Nifty Financial Services" ->
           << "N", "i", "f", "t", "y", " ", "F", "i", "n", "a", "n", "c", "i", "a", "l", " ", "S", "e", "r", "v", "i", "c", "e", "s" >>
      [] label = "Nifty Pharma" ->
           << "N", "i", "f", "t", "y", " ", "P", "h", "a", "r", "m", "a" >>
      [] label = "Nifty Metal" ->
           << "N", "i", "f", "t", "y", " ", "M", "e", "t", "a", "l" >>
      [] label = "Nifty Midcap" ->
           << "N", "i", "f", "t", "y", " ", "M", "i", "d", "c", "a", "p" >>
      [] label = "Nifty Realty" ->
           << "N", "i", "f", "t", "y", " ", "R", "e", "a", "l", "t", "y" >>
      [] label = "Nifty Smallcap" ->
           << "N", "i", "f", "t", "y", " ", "S", "m", "a", "l", "l", "c", "a", "p" >>
      [] label = "Nifty Green Energy" ->
           << "N", "i", "f", "t", "y", " ", "G", "r", "e", "e", "n", " ", "E", "n", "e", "r", "g", "y" >>
      [] label = "Nifty Banks" ->
           << "N", "i", "f", "t", "y", " ", "B", "a", "n", "k", "s" >>
      [] label = "Nifty Retail" ->
           << "N", "i", "f", "t", "y", " ", "R", "e", "t", "a", "i", "l" >>
      [] label = "Nifty Oil & Gas" ->
           << "N", "i", "f", "t", "y", " ", "O", "i", "l", " ", "&", " ", "G", "a", "s" >>
      [] label = "Nifty Consumer Durables" ->
           << "N", "i", "f", "t", "y", " ", "C", "o", "n", "s", "u", "m", "e", "r", " ", "D", "u", "r", "a", "b", "l", "e", "s" >>
      [] label = "Nifty PSU Banks" ->
           << "N", "i", "f", "t", "y", " ", "P", "S", "U", " ", "B", "a", "n", "k", "s" >>
      [] label = "Nifty Value 20" ->
           << "N", "i", "f", "t", "y", " ", "V", "a", "l", "u", "e", " ", "2", "0" >>
      [] label = "MC Oil & Gas" ->
           << "M", "C", " ", "O", "i", "l", " ", "&", " ", "G", "a", "s" >>
      [] label = "MC Nifty Midcaps" ->
           << "M", "C", " ", "N", "i", "f", "t", "y", " ", "M", "i", "d", "c", "a", "p", "s" >>
      [] label = "MC Nifty150 Quality 30" ->
           << "M", "C", " ", "N", "i", "f", "t", "y", "1", "5", "0", " ", "Q", "u", "a", "l", "i", "t", "y", " ", "3", "0" >>

\* the entries a batch walks
Specs == SubSeq(INDICATORS, 1, MaxSpecs)

\* all_labels = [ind["label"] for ind in INDICATORS]
all_labels == {Specs[k].label : k \in 1..Len(Specs)}

----------------------------------------------------------------------------
(* pandas: the DataFrame, the boolean-mask selection, str.contains *)

QuoteColumns == {"label", "price", "change", "pct"}

\* pd.DataFrame(records): a frame built from no records has no columns
DataFrame(recs) ==
    [kind |-> "frame",
     columns |-> IF recs = <<>> THEN {} ELSE QuoteColumns,
     rows |-> recs]

NoFrame == [kind |-> "no frame"]
Error(e) == [kind |-> "error", exc |-> e]

\* the search alphabet holds one regex metacharacter that matches any
\* character, ".", and one that opens a group, "(": with no ")" to close
\* it, re.compile raises re.error
RegexCompiles(q) == \A k \in 1..Len(q) : q[k] # "("

\* one pattern character against one subject character, under re.IGNORECASE
RegexCharMatches(p, c) == p = "." \/ Lower(p) = Lower(c)

\* re.search(q, s, re.IGNORECASE) finds a match
RegexSearch(q, s) ==
    \E k \in 0..(Len(s) - Len(q)) :
        \A j \in 1..Len(q) : RegexCharMatches(q[j], s[k + j])

\* df[df["label"].isin(sel)]
FilterIsin(frame, sel) ==
    IF "label" \notin frame.columns THEN Error("KeyError")
    ELSE [frame EXCEPT !.rows = SelectSeq(frame.rows, LAMBDA r : r.label \in sel)]

\* df[df["label"].str.contains(q, case=False)]
FilterContains(frame, q) ==
    IF "label" \notin frame.columns THEN Error("KeyError")
    ELSE IF ~RegexCompiles(q) THEN Error("re.error")
    ELSE [frame EXCEPT !.rows =
            SelectSeq(frame.rows, LAMBDA r : RegexSearch(q, LabelChars(r.label)))]

\* the Data Filtering section
FilterStep(frame, sel, q) ==
    LET bySel == IF sel # {} THEN FilterIsin(frame, sel) ELSE frame
    IN  IF bySel.kind = "error" THEN bySel
        ELSE IF q # <<>> THEN FilterContains(bySel, q)
        ELSE bySel

\* what the user may pick in the multiselect
Selections == SUBSET all_labels

\* what the user may type into the search box
Queries == { <<>>, <<"e">>, <<".">>, <<"(">>, <<"f", "M">>, <<"y", ".", "E">>,
             <<"z">> }

----------------------------------------------------------------------------
(* st.cache_data(ttl=300) around fetch_all_indicators *)

NoEntry == [kind |-> "no entry"]

\* an entry holds the value and, here, the time since it was stored
Entry(value, age) == [kind |-> "entry", value |-> value, age |-> age]

\* the ttl is never applied
CacheNeverExpires(entry) ==
    IF entry = NoEntry THEN {FALSE} ELSE {TRUE}

\* whether a lookup returns the stored value: it does while the entry is
\* younger than ttl and does not once it is older; at an age of exactly
\* ttl either may happen
CacheHits(entry) ==
    IF entry = NoEntry THEN {FALSE}
    ELSE IF entry.age < TTL THEN {TRUE}
    ELSE IF entry.age = TTL THEN {TRUE, FALSE}
    ELSE {FALSE}

----------------------------------------------------------------------------
(* The initial state: nothing fetched, nothing cached, no page run yet *)

Init ==
    /\ fpc = "idle"
    /\ caller = "none"
    /\ flabel = ""
    /\ retries = 0
    /\ delay = 0
    /\ attempt = 0
    /\ log = <<>>
    /\ failures = 0
    /\ lastResp = Failure("NetworkError")
    /\ fresult = None
    /\ ppc = "idle"
    /\ cache = NoEntry
    /\ ticks = 0
    /\ idx = 1
    /\ records = <<>>
    /\ warnings = <<>>
    /\ called = <<>>
    /\ failedSpecs = <<>>
    /\ fetched = NoFrame
    /\ df = NoFrame
    /\ selection = {}
    /\ search_query = <<>>
    /\ outcome = "none"
    /\ startKind = "none"
    /\ runRequests = 0
    /\ runBatches = 0

----------------------------------------------------------------------------
(* fetch_indicator called on its own, with any retries and delay *)

RetriesArgs == (-1)..MaxRetries
DelayArgs == {1, 2}

DirectCall(n, d) ==
    /\ ppc = "idle"
    /\ Enter("direct", INDICATORS[1].label, n, d)
    /\ UNCHANGED <<ppc, cache, ticks, batchVars, runVars>>

\* the caller has the returned value or the exception in hand
DirectDone ==
    /\ caller = "direct"
    /\ fpc \in {"returned", "raised"}
    /\ Leave
    /\ UNCHANGED <<ppc, cache, ticks, batchVars, runVars>>

NextFetch ==
    \/ \E n \in RetriesArgs, d \in DelayArgs : DirectCall(n, d)
    \/ \E resp \in Responses : caller = "direct" /\ FetchAttempt(resp)
    \/ FetchFallThrough
    \/ DirectDone

SpecFetch == Init /\ [][NextFetch]_vars

----------------------------------------------------------------------------
(* The page run: the cached fetch_all_indicators, then the filter step *)

StartKind(entry) ==
    IF entry = NoEntry THEN "none"
    ELSE IF entry.age < TTL THEN "live"
    ELSE IF entry.age = TTL THEN "edge"
    ELSE "expired"

\* a run begins, up to the call of fetch_all_indicators(); the sidebar
\* values read at lines 122-123 are first used by the filter step, which
\* is where they are drawn
BeginRun ==
    /\ ppc \in {"idle", "done"}
    /\ fpc = "idle"
    /\ startKind' = StartKind(cache)
    /\ runRequests' = 0
    /\ df' = NoFrame
    /\ selection' = {}
    /\ search_query' = <<>>
    /\ outcome' = "none"
    /\ idx' = 1
    /\ records' = <<>>
    /\ warnings' = <<>>
    /\ called' = <<>>
    /\ failedSpecs' = <<>>
    /\ UNCHANGED <<fetchVars, cache, ticks>>

\* fetch_all_indicators() answered from the cache
RunCached ==
    /\ BeginRun
    /\ TRUE \in CacheHits(cache)
    /\ fetched' = DataFrame(cache.value)
    /\ ppc' = "filter"
    /\ runBatches' = 0

\* fetch_all_indicators() not answered from the cache: its body starts
RunBatch ==
    /\ BeginRun
    /\ FALSE \in CacheHits(cache)
    /\ fetched' = NoFrame
    /\ ppc' = "batch"
    /\ runBatches' = 1

\* rec = fetch_indicator(ind["code"], ind["label"])
BatchCall ==
    /\ ppc = "batch"
    /\ idx <= Len(Specs)
    /\ Enter("batch", Specs[idx].label, DefaultRetries, DefaultDelay)
    /\ called' = Append(called, Specs[idx].label)
    /\ UNCHANGED <<ppc, cache, ticks, idx, records, warnings, failedSpecs,
                   runVars>>

AbortOnFailure(k, failed) == IF failed THEN Len(Specs) + 1 ELSE k + 1

\* the for loop moves on to the next entry, after a record or a warning
NextSpec(k, failed) == k + 1

\* records.append(rec), or the except branch's st.warning
BatchCollect ==
    /\ ppc = "batch"
    /\ caller = "batch"
    /\ fpc \in {"returned", "raised"}
    /\ IF fpc = "returned"
           THEN /\ records' = Append(records,
                                     IF fresult.kind = "quote" THEN fresult.quote
                                     ELSE None)
                /\ UNCHANGED warnings
           ELSE /\ warnings' = Append(warnings, flabel)
                /\ UNCHANGED records
    /\ idx' = NextSpec(idx, fpc = "raised")
    /\ Leave
    /\ UNCHANGED <<ppc, cache, ticks, called, failedSpecs, runVars>>

\* return pd.DataFrame(records), which the cache stores as a fresh entry
BatchReturn ==
    /\ ppc = "batch"
    /\ fpc = "idle"
    /\ idx > Len(Specs)
    /\ fetched' = DataFrame(records)
    /\ cache' = Entry(records, 0)
    /\ ppc' = "filter"
    /\ UNCHANGED <<fetchVars, ticks, batchVars, df, selection, search_query,
                   outcome, startKind, runRequests, runBatches>>

\* the Data Filtering section and the branch on df.empty, for the
\* selection and the query the user entered
FilterAndShow(sel, q) ==
    /\ ppc = "filter"
    /\ selection' = sel
    /\ search_query' = q
    /\ df' = FilterStep(fetched, sel, q)
    /\ outcome' = IF df'.kind = "error" THEN "error"
                  ELSE IF df'.rows = <<>> THEN "no_data"
                  ELSE "rendered"
    /\ ppc' = "done"
    /\ UNCHANGED <<fetchVars, cache, ticks, batchVars, fetched, startKind,
                   runRequests, runBatches>>

TickSteps == {1, TTL - 1, TTL + 1}

\* time passes between page runs (within a run only the sleeps of
\* fetch_indicator take time)
Tick(d) ==
    /\ ppc \in {"idle", "done"}
    /\ fpc = "idle"
    /\ ticks < MaxTicks
    /\ cache' = Elapse(cache, d)
    /\ ticks' = ticks + 1
    /\ UNCHANGED <<fetchVars, ppc, batchVars, runVars>>

NextPage ==
    \/ RunCached
    \/ RunBatch
    \/ BatchCall
    \/ \E resp \in BatchResponses : caller = "batch" /\ FetchAttempt(resp)
    \/ BatchCollect
    \/ BatchReturn
    \/ \E sel \in Selections, q \in Queries : FilterAndShow(sel, q)
    \/ \E d \in TickSteps : Tick(d)

SpecPage == Init /\ [][NextPage]_vars

----------------------------------------------------------------------------
(* Properties of fetch_indicator, under SpecFetch *)

Requests(l) == Len(SelectSeq(l, LAMBDA e : e.ev = "request"))
Sleeps(l) == Len(SelectSeq(l, LAMBDA e : e.ev = "sleep"))

\* requests and sleeps of `d` alternate, first and last a request
Alternates(l, d) ==
    /\ Len(l) % 2 = 1
    /\ \A j \in 1..Len(l) :
          l[j] = IF j % 2 = 1 THEN RequestEvent ELSE [ev |-> "sleep", d |-> d]

\* C1: a call that returns a Quote after k failed attempts was given
\* retries > k, made exactly k+1 requests and k sleeps of `delay`, each
\* sleep between two requests, and the Quote is the one built from the
\* answer to the last request.
C1_SuccessAfterKFailures ==
    (fpc = "returned" /\ fresult.kind = "quote") =>
        /\ retries >= 1
        /\ failures < retries
        /\ failures = attempt
        /\ Requests(log) = failures + 1
        /\ Sleeps(log) = failures
        /\ Alternates(log, delay)
        /\ fresult = TryAttempt(flabel, lastResp)
        /\ fresult.quote.label = flabel

C1_Witness ==
    /\ fpc = "returned"
    /\ fresult.kind = "quote"
    /\ retries = 3
    /\ failures = 2
    /\ delay = 2
    /\ Sleeps(log) = 2

\* C2: a call raises only after every one of its retries >= 1 attempts has
\* failed, having made exactly retries requests and retries-1 sleeps, none
\* after the last request, and what it raises is the failure of the last
\* attempt; and once every attempt has failed the call has raised (it
\* returns nothing and does not go on).
C2_RaiseAfterAllFail ==
    /\ fpc = "raised" =>
          /\ retries >= 1
          /\ failures = retries
          /\ Requests(log) = retries
          /\ Sleeps(log) = retries - 1
          /\ Alternates(log, delay)
          /\ fresult.kind = "exc"
          /\ fresult = TryAttempt(flabel, lastResp)
    /\ (fpc # "idle" /\ retries >= 1 /\ failures = retries) => fpc = "raised"

C2_Witness ==
    /\ fpc = "raised"
    /\ retries = 3
    /\ failures = 3
    /\ lastResp = Failure("NullData")
    /\ fresult = Raised("ValueError")

\* a string float() turns into a finite number
IsFiniteNumeral(s) ==
    LET body == IF s # <<>> /\ s[1] \in {"-", "+"} THEN Tail(s) ELSE s
    IN  body # <<>> /\ \A k \in 1..Len(body) : body[k] \in Digits

QuoteField(q, key) ==
    CASE key = "pricecurrent" -> q.price
      [] key = "pricechange" -> q.change
      [] key = "pricepercentchange" -> q.pct

StripOf(key) == IF key = "pricepercentchange" THEN "%" ELSE ","

\* C5: every returned Quote has finite price, change and pct, each parsed
\* from a field the upstream's data carries as a finite numeric string.
C5_QuoteFieldsParsedFinite ==
    (fpc = "returned" /\ fresult.kind = "quote") =>
        \A key \in FieldKeys :
            /\ key \in DOMAIN lastResp.data
            /\ lastResp.data[key].t = "str"
            /\ IsFiniteNumeral(Replace(lastResp.data[key].s, StripOf(key)))
            /\ IsFinite(QuoteField(fresult.quote, key))

\* C10: a call that completes normally has a Quote to return.
C10_ReturnsQuoteOrRaises ==
    fpc = "returned" => fresult.kind = "quote"

----------------------------------------------------------------------------
(* Properties of the batch, the cache and the page run, under SpecPage *)

SpecLabels == [k \in 1..Len(Specs) |-> Specs[k].label]
LabelsOf(rows) == [k \in 1..Len(rows) |-> rows[k].label]
Elems(seq) == {seq[k] : k \in 1..Len(seq)}

BatchOver == ppc \in {"filter", "done"} /\ runBatches = 1

\* C3: a batch calls fetch_indicator for every configured spec, in list
\* order, whatever fails; when it is over its rows are the specs whose
\* fetch did not raise, in list order, N-M of them, one warning was issued
\* for each of the M specs whose fetch raised, and it has returned the frame
\* of these rows.
C3_BatchToleratesFailures ==
    /\ (ppc = "batch" /\ fpc = "idle") =>
          /\ called = SubSeq(SpecLabels, 1, idx - 1)
          /\ Len(records) + Len(warnings) = idx - 1
    /\ ppc = "batch" => warnings = SubSeq(failedSpecs, 1, Len(warnings))
    /\ BatchOver =>
          /\ called = SpecLabels
          /\ warnings = failedSpecs
          /\ Len(records) = Len(Specs) - Len(failedSpecs)
          /\ LabelsOf(records) =
                SelectSeq(SpecLabels, LAMBDA l : l \notin Elems(failedSpecs))
          /\ fetched = DataFrame(records)

C3_Witness ==
    /\ BatchOver
    /\ failedSpecs = <<Specs[2].label>>
    /\ Len(warnings) = 1
    /\ LabelsOf(records) = <<Specs[1].label, Specs[3].label>>

NoDuplicateLabels(rows) ==
    \A j, k \in 1..Len(rows) : rows[j].label = rows[k].label => j = k

\* C8: no two rows of the records being built, of the frame returned, of
\* the frame after the filter or of the cached value carry the same label.
C8_LabelsDistinct ==
    /\ NoDuplicateLabels(records)
    /\ fetched.kind = "frame" => NoDuplicateLabels(fetched.rows)
    /\ df.kind = "frame" => NoDuplicateLabels(df.rows)
    /\ cache.kind = "entry" => NoDuplicateLabels(cache.value)

C8_Witness ==
    /\ cache.kind = "entry"
    /\ Len(cache.value) = Len(Specs)
    /\ Len(Specs) >= 2
    /\ ppc = "done"
    /\ Len(df.rows) >= 2

CallAnswered == ppc \in {"filter", "done"}

\* what holds once the cached call has answered
C4_Answered ==
    CallAnswered =>
        /\ startKind = "live" =>
              /\ runBatches = 0
              /\ runRequests = 0
              /\ fetched = DataFrame(cache.value)
        /\ startKind \in {"none", "expired"} =>
              /\ runBatches = 1
              /\ runRequests >= Len(Specs)
              /\ cache.kind = "entry"
              /\ cache.value = records
              /\ fetched = DataFrame(records)
              /\ ppc = "filter" => cache.age = 0
        /\ runBatches = 0 => runRequests = 0

\* what every step keeps: an answer from the cache hands out the stored
\* value and leaves the entry alone; the stored value changes only when a
\* batch returns; an entry is never dropped, only replaced
C4_Step ==
    /\ (ppc \in {"idle", "done"} /\ ppc' = "filter") =>
          /\ cache' = cache
          /\ cache.kind = "entry"
          /\ fetched' = DataFrame(cache.value)
          /\ startKind' \in {"live", "edge"}
    /\ (cache.kind = "entry" /\ cache'.kind = "entry"
            /\ (cache'.value # cache.value \/ cache'.age < cache.age)) =>
          (ppc = "batch" /\ ppc' = "filter" /\ cache'.value = records)
    /\ cache.kind = "entry" => cache'.kind = "entry"
    /\ (ppc = "batch" /\ ppc' = "filter") => cache' = Entry(records, 0)

\* C4: a call of the cached fetch_all_indicators made with no entry, or
\* with an entry older than ttl, runs exactly one batch and stores its
\* rows as a fresh entry; a call made while the entry is younger than ttl
\* is handed the stored rows, leaves the entry as it is and issues no
\* request.
C4_CacheWithinTtl == [](C4_Answered) /\ [][C4_Step]_vars

\* a second batch: the entry of an earlier one had grown older than ttl
C4_Witness ==
    /\ ppc = "filter"
    /\ startKind = "expired"
    /\ runBatches = 1
    /\ cache = Entry(records, 0)

\* a label holds q as a substring, letter case aside
ContainsLiteral(q, s) ==
    \E k \in 0..(Len(s) - Len(q)) :
        \A j \in 1..Len(q) : Lower(q[j]) = Lower(s[k + j])

\* the rows of frame with a label in sel (sel non-empty) that holds q (q
\* non-empty), in frame's order
LiteralFilter(frame, sel, q) ==
    [frame EXCEPT !.rows =
        SelectSeq(frame.rows,
                  LAMBDA r : /\ (sel = {} \/ r.label \in sel)
                             /\ (q = <<>> \/ ContainsLiteral(q, LabelChars(r.label))))]

\* C6: a page run whose fetched frame has no rows, or whose filter leaves
\* no rows, ends at the "No data available" warning.
C6_EmptyShowsNoData ==
    (ppc = "done" /\ (fetched.rows = <<>> \/ (df.kind = "frame" /\ df.rows = <<>>)))
        => outcome = "no_data"

\* C7: the filter step leaves exactly the rows whose label is selected and
\* holds the query as a literal substring, letter case aside.
C7_FilterIsLiteralSubstring ==
    ppc = "done" => df = LiteralFilter(fetched, selection, search_query)

====
